---- MODULE Spec2Model ----
(***************************************************************************)
(* simphon: phonemic similarity by simhash.                                *)
(*                                                                         *)
(* A Python int used as a bit string (a simhash, a per-feature hash) is    *)
(* modelled as the set of the positions of its 1 bits, so that widths      *)
(* beyond the range of TLC's integers keep their exact value.  Strings     *)
(* are modelled as sequences of character codes, the space having code 0.  *)
(***************************************************************************)
EXTENDS Integers, Sequences, FiniteSets, TLC

VARIABLES
    \* ---- a run of compare / search over candidates (lsh_utils.py) ----
    tokens,        \* the corpus handed to compare / search: a sequence of Tokens
    queries,       \* the queries handed to candidates: a sequence of Tokens
    window,        \* the window argument
    simhash_bits,  \* the simhash_bits argument
    hashsize,      \* Token.hashsize, set from --bit-size
    fingerprint,   \* what Token.simhash() returns, by the Token's matrix (lru_cache)
    band,          \* the loop variable i of candidates
    d,             \* the set d of candidates: keys already yielded
    out,           \* the records compare / search have yielded so far
    pc,            \* "init", "run", "done", "error", "exit", "reported", "KeyError"
    raised,        \* the pair on which simdiff raised ValueError, or <<>>
    report,        \* the sorted frame __main__ prints
    \* ---- one call of matrix_simhash, iteration by iteration ----
    mpc,           \* "idle", "loop", "done"
    mslot,         \* position in the loop order over (i, j)
    simhash,       \* the local simhash
    shifts,        \* the shift amounts applied so far
    \* ---- one call of rotate, and the call that undoes it ----
    rpc,           \* "idle", "args", "rotated", "back"
    rx, rbits, rk, \* the arguments simhash, bits, rotations
    ry, rz,        \* rotate(rx, rbits, rk) and rotate(ry, rbits, rbits - rk)
    \* ---- one call of simdiff, and the call with the operands exchanged ----
    dpc,           \* "idle", "args", "called"
    da, db,        \* the arguments a, b
    dab, dba,      \* simdiff(da, db) and simdiff(db, da)
    \* ---- one call of segment_simhash or stride_simhash ----
    epc,           \* "idle", "args", "returned", "raised"
    ekind,         \* "segment" or "stride": the extractor called
    em,            \* the matrix m: a sequence of rows, each a sequence of cells
    en,            \* the argument n
    ehashf,        \* hashf(data, bits=hashsize, seed=seed) for the data of m's windows
    edata,         \* the byte strings hashed, one per window, in the order of the loops
    elsh,          \* the counters lsh[0 .. hashsize - 1], as elsh[1 .. hashsize]
    eres,          \* the value returned
    \* ---- Token.simhash() of one Token under changing class attributes ----
    cpc,           \* "idle", "start", "configured", "called"
    seed,          \* Token.seed
    salt,          \* Token.salt, the attribute __main__ stores --seed in
    simhashOf,     \* matrix_simhash(matrix, hashsize, seed) of the Token's matrix
    cache,         \* the lru_cache of Token.simhash: <<>> or the entry of the Token
    returned,      \* what the last call of Token.simhash() returned
    \* ---- two Tokens compared, and the keys candidates makes of them ----
    opc,           \* "idle", "args", "compared"
    oa, ob,        \* the Tokens a, b
    olt, oeq, ogt, \* a < b, a == b, b < a
    okeyab,        \* tuple(sorted((a, b)))
    okeyba,        \* tuple(sorted((b, a)))
    onew           \* tuple(sorted((b, a))) not in d, after d.add(tuple(sorted((a, b))))

vars == <<tokens, queries, window, simhash_bits, hashsize, fingerprint, band, d, out,
          pc, raised, report, mpc, mslot, simhash, shifts, rpc, rx, rbits, rk, ry, rz,
          dpc, da, db, dab, dba, epc, ekind, em, en, ehashf, edata, elsh, eres,
          cpc, seed, salt, simhashOf, cache, returned,
          opc, oa, ob, olt, oeq, ogt, okeyab, okeyba, onew>>

candVars == <<tokens, queries, window, simhash_bits, hashsize, fingerprint, band, d, out,
              pc, raised, report>>
hashVars == <<mpc, mslot, simhash, shifts>>
rotVars  == <<rpc, rx, rbits, rk, ry, rz>>
diffVars == <<dpc, da, db, dab, dba>>
extVars  == <<epc, ekind, em, en, ehashf, edata, elsh, eres>>
cacheVars == <<cpc, seed, salt, simhashOf, cache, returned>>
ordVars  == <<opc, oa, ob, olt, oeq, ogt, okeyab, okeyba, onew>>

----------------------------------------------------------------------------
(* Bounds of the model *)

\* the longest corpus
MaxTokens == 3
\* the largest window argument
MaxWindow == 4
\* DEFAULT_HASHSIZE of lsh_utils.py is 256; the model scales the per-feature
\* hash width down to this many bits
DEFAULT_HASHSIZE == 1
\* DEFAULT_SEED
DEFAULT_SEED == 0
\* the widest field rotate is called on by itself
MaxRotateBits == 4
\* the widest operand simdiff is called on by itself
MaxDiffBits == 3
\* the largest matrix and window size an extractor is called on by itself
MaxRows == 3
MaxCols == 2
MaxN == 2

----------------------------------------------------------------------------
(* Python ints as sets of bit positions *)

Max(S) == CHOOSE m \in S : \A x \in S : x <= m

\* a ^ b
Xor(a, b) == (a \ b) \cup (b \ a)

\* a << k
Shl(a, k) == {p + k : p \in a}

\* a >> k
Shr(a, k) == {p - k : p \in {q \in a : q >= k}}

\* a.bit_length()
BitLength(a) == IF a = {} THEN 0 ELSE Max(a) + 1

\* (2 ** bits) - 1
Mask(bits) == 0 .. (bits - 1)

\* a < b on ints
IntLT(a, b) == a # b /\ Max(Xor(a, b)) \in b

----------------------------------------------------------------------------
(* lsh_utils.py: the fingerprint *)

\* the simhash features, by index i
features == <<"stride_simhash", "stride_simhash", "segment_simhash", "segment_simhash">>

\* the n-gram sizes j
n_gram_sizes == <<3, 5, 7>>

SIMHASH_BITS == DEFAULT_HASHSIZE * Len(features) * Len(n_gram_sizes)

\* the (i, j) of the two nested loops of matrix_simhash, in iteration order
SlotOrder ==
    [k \in 1 .. (Len(features) * Len(n_gram_sizes)) |->
        <<(k - 1) \div Len(n_gram_sizes), n_gram_sizes[((k - 1) % Len(n_gram_sizes)) + 1]>>]

Slots == {SlotOrder[k] : k \in DOMAIN SlotOrder}

\* the left shift of the result for feature i and n-gram size j
ShiftOf(i, j, hs) == hs * i * j

\* one iteration of the loop body: simhash ^= lsh(...) << hashsize * i * j
SimhashStep(acc, r, i, j, hs) == Xor(acc, Shl(r, ShiftOf(i, j, hs)))

RECURSIVE SimhashLoop(_, _, _, _)
SimhashLoop(table, hs, k, acc) ==
    IF k > Len(SlotOrder) THEN acc
    ELSE SimhashLoop(table, hs, k + 1,
                     SimhashStep(acc, table[SlotOrder[k]], SlotOrder[k][1], SlotOrder[k][2], hs))

\* matrix_simhash(m, hashsize), the results of lsh(transform(pad(m, j)), n=j) given by table
matrix_simhash(table, hs) == SimhashLoop(table, hs, 1, {})

\* rotate with the two shifts exchanged: a rotation to the left
rotate_Left(x, bits, rotations) ==
    LET r == rotations % bits
        s == x \cap Mask(bits)
    IN  IF r < 1 THEN x
        ELSE (Shl(s, r) \cap Mask(bits)) \cup Shr(s, bits - r)

\* rotate(simhash, bits, rotations)
rotate(x, bits, rotations) ==
    LET r == rotations % bits
        s == x \cap Mask(bits)
    IN  IF r < 1 THEN x
        ELSE Shr(s, r) \cup (Shl(s, bits - r) \cap Mask(bits))

\* the outcome of simdiff when it raises ValueError
ValueError == -1

\* simdiff counting the bits of a | b in place of a ^ b
simdiff_Or(a, b) ==
    LET bits == IF BitLength(a) >= BitLength(b) THEN BitLength(a) ELSE BitLength(b)
    IN  IF bits < 1 THEN ValueError
        ELSE Cardinality({i \in 0 .. (bits - 1) : i \in a \cup b})

\* simdiff over the shorter of the two bit lengths
simdiff_Min(a, b) ==
    LET bits == IF BitLength(a) <= BitLength(b) THEN BitLength(a) ELSE BitLength(b)
        xor  == Xor(a, b)
    IN  IF BitLength(a) < 1 /\ BitLength(b) < 1 THEN ValueError
        ELSE Cardinality({i \in 0 .. (bits - 1) : i \in xor})

\* simdiff without the test of the width: 0 for two zero operands
simdiff_NoRaise(a, b) ==
    LET bits == IF BitLength(a) >= BitLength(b) THEN BitLength(a) ELSE BitLength(b)
        xor  == Xor(a, b)
    IN  Cardinality({i \in 0 .. (bits - 1) : i \in xor})

\* simdiff(a, b)
simdiff(a, b) ==
    LET bits == IF BitLength(a) >= BitLength(b) THEN BitLength(a) ELSE BitLength(b)
        xor  == Xor(a, b)
    IN  IF bits < 1 THEN ValueError
        ELSE Cardinality({i \in 0 .. (bits - 1) : i \in xor})

----------------------------------------------------------------------------
(* simphon.py: Tokens *)

\* Token(language, graphemes, phonemes): strings as codes, phonemes a tuple of symbols
Token(l, g, ph) == [language |-> l, graphemes |-> g, phonemes |-> ph]

\* the corpus the runs draw their Tokens from: two spellings of one pronunciation,
\* and one spelling with two pronunciations
Universe == {Token(1, 1, <<1, 2, 1>>), Token(1, 2, <<1, 2, 1>>), Token(1, 1, <<1, 3, 1>>)}

\* a phoneme symbol that is written with a space in it
SpacedSymbol == 5

\* the characters of a phoneme symbol: the symbols are named by the code of their
\* one character, but for SpacedSymbol, which is written "1 2"
Spelling(p) == IF p = SpacedSymbol THEN <<1, 0, 2>> ELSE <<p>>

\* ' '.join(self.phonemes)
RECURSIVE Join(_)
Join(ph) ==
    IF Len(ph) = 0 THEN <<>>
    ELSE IF Len(ph) = 1 THEN Spelling(ph[1])
    ELSE Spelling(ph[1]) \o <<0>> \o Join(Tail(ph))

\* s < t on strings
RECURSIVE StrLT(_, _)
StrLT(s, t) ==
    IF Len(t) = 0 THEN FALSE
    ELSE IF Len(s) = 0 THEN TRUE
    ELSE IF s[1] # t[1] THEN s[1] < t[1]
    ELSE StrLT(Tail(s), Tail(t))

\* Token.__eq__, as @dataclass generates it: the fields, compared as a tuple
TokenEQ(a, b) ==
    <<a.language, a.graphemes, a.phonemes>> = <<b.language, b.graphemes, b.phonemes>>

\* Token.__lt__
TokenLT(a, b) ==
    \/ a.language < b.language
    \/ /\ a.language = b.language
       /\ \/ a.graphemes < b.graphemes
          \/ /\ a.graphemes = b.graphemes
             /\ StrLT(Join(a.phonemes), Join(b.phonemes))

\* phonemic_inventory(language): the phonemes with a feature row, '|' (code 1) included
phonemic_inventory(language) == 1 .. 3

\* sys.exit(1) in phoneme_vector: no vector is returned
SystemExit == -2

\* phoneme_vector with the row of phoneme 2 standing in for a missing row
phoneme_vector_Default(phoneme, language) ==
    IF phoneme \in phonemic_inventory(language) THEN phoneme ELSE 2

\* phoneme_vector(phoneme, language): the feature row, named by its phoneme
phoneme_vector(phoneme, language) ==
    IF phoneme \in phonemic_inventory(language) THEN phoneme ELSE SystemExit

\* Token.phonemes_matrix: one row per phoneme; the matrix is a function of the
\* language and the phonemes
MatrixOf(t) ==
    <<t.language, [k \in DOMAIN t.phonemes |-> phoneme_vector(t.phonemes[k], t.language)]>>

\* every phoneme of the Token has a feature row
Resolves(t) == \A k \in DOMAIN t.phonemes : MatrixOf(t)[2][k] # SystemExit

\* a Token with a phoneme that has no feature row in its language
Unknown == {Token(1, 2, <<1, 4, 1>>)}

Matrices == {MatrixOf(t) : t \in Universe}

\* Token.simhash()
TokenSimhash(t) == fingerprint[MatrixOf(t)]

----------------------------------------------------------------------------
(* lsh_utils.py: candidates *)

\* lsh(token) in band i
lsh(t, i) == rotate(TokenSimhash(t), simhash_bits, i)

\* sorted(seq, key=lsh): the key is computed once per element, and the sort is
\* stable: an element goes behind every element whose key is not greater
RECURSIVE InsertByKey(_, _)
InsertByKey(s, e) ==
    IF Len(s) = 0 THEN <<e>>
    ELSE IF IntLT(e[1], Head(s)[1]) THEN <<e>> \o s
    ELSE <<Head(s)>> \o InsertByKey(Tail(s), e)

RECURSIVE SortFrom(_, _, _, _)
SortFrom(seq, i, k, acc) ==
    IF k > Len(seq) THEN acc
    ELSE SortFrom(seq, i, k + 1, InsertByKey(acc, <<lsh(seq[k], i), seq[k]>>))

SortedByLsh(seq, i) ==
    LET keyed == SortFrom(seq, i, 1, <<>>)
    IN  [p \in 1 .. Len(seq) |-> keyed[p][2]]

\* ngrams(seq, n): zip over n staggered copies of seq
ngrams(seq, n) ==
    IF n = 0 \/ Len(seq) < n THEN <<>>
    ELSE [k \in 1 .. (Len(seq) - n + 1) |-> SubSeq(seq, k, k + n - 1)]

\* combinations(ngram, 2), in itertools order
RECURSIVE combinations2(_)
combinations2(g) ==
    IF Len(g) < 2 THEN <<>>
    ELSE [k \in 1 .. (Len(g) - 1) |-> <<g[1], g[k + 1]>>] \o combinations2(Tail(g))

Range(seq) == {seq[k] : k \in DOMAIN seq}

\* not(any(queries)) or (set(ngram) & set(queries))
WindowGuard(g, qs) == Len(qs) = 0 \/ Range(g) \cap Range(qs) # {}

\* the test on the pair left out: only the window is tested
PairGuard_Dropped(a, b, qs) == TRUE

\* not(any(queries)) or ({a, b} & set(queries))
PairGuard(a, b, qs) == Len(qs) = 0 \/ {a, b} \cap Range(qs) # {}

\* tuple(sorted((a, b)))
SortedPair(a, b) == IF TokenLT(b, a) THEN <<b, a>> ELSE <<a, b>>

\* the membership test left out: every pair met is yielded
IsNew_Always(key, seen) == TRUE

\* key not in d
IsNew(key, seen) == key \notin seen

\* the difference candidates yields for (a, b) in band i
Difference(a, b, i) == simdiff(lsh(a, i), lsh(b, i))

RECURSIVE FlattenPairs(_, _)
FlattenPairs(grams, qs) ==
    IF Len(grams) = 0 THEN <<>>
    ELSE (IF WindowGuard(Head(grams), qs)
          THEN SelectSeq(combinations2(Head(grams)), LAMBDA p : PairGuard(p[1], p[2], qs))
          ELSE <<>>) \o FlattenPairs(Tail(grams), qs)

\* the pairs band i reaches, in the order of the loops
BandPairs(i) == FlattenPairs(ngrams(SortedByLsh(queries \o tokens, i), window), queries)

\* the record compare / search build from one yield; the score is the exact
\* value 1.0 - difference/simhash_bits, as <<numerator, denominator>>
Record(key, difference) ==
    [a |-> key[1], b |-> key[2], difference |-> difference,
     score |-> <<simhash_bits - difference, simhash_bits>>]

\* the body of the loops over one band's pairs: st = [d, out, pc, raised]
RECURSIVE Visit(_, _, _)
Visit(pairs, st, i) ==
    IF Len(pairs) = 0 \/ st.pc = "error" THEN st
    ELSE LET a   == Head(pairs)[1]
             b   == Head(pairs)[2]
             key == SortedPair(a, b)
             difference == Difference(a, b, i)
         IN  IF ~IsNew(key, st.d) THEN Visit(Tail(pairs), st, i)
             ELSE IF difference = ValueError
                  THEN [st EXCEPT !.pc = "error", !.raised = <<a, b>>]
                  ELSE Visit(Tail(pairs),
                             [st EXCEPT !.d = @ \cup {key},
                                        !.out = Append(@, Record(key, difference))],
                             i)

----------------------------------------------------------------------------
(* Inputs *)

\* the values --bit-size gives Token.hashsize: the default, and a larger one
HashSizes == {DEFAULT_HASHSIZE, DEFAULT_HASHSIZE + 1}

\* values a per-feature simhash of hs bits can take: none, the top bit, all bits
LshValues(hs) == {{}, {hs - 1}, 0 .. (hs - 1)}

ZeroTable == [s \in Slots |-> {}]

\* tables of per-(feature, n) results the hash can give a matrix
LshTables(hs) ==
    { ZeroTable,
      [ZeroTable EXCEPT ![<<1, 3>>] = {0}],
      [ZeroTable EXCEPT ![<<1, 3>>] = {0}, ![<<3, 7>>] = {hs - 1}],
      [s \in Slots |-> 0 .. (hs - 1)] }

SeqsUpTo(S, lo, hi) == UNION {[1 .. n -> S] : n \in lo .. hi}

----------------------------------------------------------------------------
(* A run of compare or search *)

HashIdle == mpc = "idle" /\ mslot = 0 /\ simhash = {} /\ shifts = <<>>

RotateIdle == rpc = "idle" /\ rx = {} /\ rbits = 1 /\ rk = 0 /\ ry = {} /\ rz = {}

DiffIdle == dpc = "idle" /\ da = {} /\ db = {} /\ dab = 0 /\ dba = 0

ExtIdle ==
    /\ epc = "idle" /\ ekind = "segment" /\ em = <<>> /\ en = 1
    /\ ehashf = <<>> /\ edata = <<>> /\ elsh = <<>> /\ eres = {}

CacheIdle ==
    /\ cpc = "idle" /\ seed = DEFAULT_SEED /\ salt = DEFAULT_SEED
    /\ simhashOf = <<>> /\ cache = <<>> /\ returned = {}

OrdIdle ==
    /\ opc = "idle" /\ oa = <<>> /\ ob = <<>> /\ olt = FALSE /\ oeq = FALSE /\ ogt = FALSE
    /\ okeyab = <<>> /\ okeyba = <<>> /\ onew = FALSE

Idle == HashIdle /\ RotateIdle /\ DiffIdle /\ ExtIdle /\ CacheIdle /\ OrdIdle

Init ==
    /\ tokens \in SeqsUpTo(Universe, 1, MaxTokens)
    /\ window \in 1 .. MaxWindow
    /\ hashsize \in HashSizes
    /\ fingerprint \in [Matrices -> {matrix_simhash(tb, hashsize) : tb \in LshTables(hashsize)}]
    /\ simhash_bits = SIMHASH_BITS
    /\ queries = <<>>
    /\ band = 0
    /\ d = {}
    /\ out = <<>>
    /\ pc = "init"
    /\ raised = <<>>
    /\ report = <<>>
    /\ Idle

\* compare(tokens, simhash_bits, window): candidates with queries = set()
Compare ==
    /\ pc = "init"
    /\ queries' = <<>>
    /\ pc' = "run"
    /\ UNCHANGED <<tokens, window, simhash_bits, hashsize, fingerprint, band, d, out, raised,
                 report>>
    /\ UNCHANGED <<hashVars, rotVars, diffVars, extVars, cacheVars, ordVars>>

\* search(queries, tokens, simhash_bits, window)
Search ==
    /\ pc = "init"
    /\ \E q \in Universe : queries' = <<q>>
    /\ pc' = "run"
    /\ UNCHANGED <<tokens, window, simhash_bits, hashsize, fingerprint, band, d, out, raised,
                 report>>
    /\ UNCHANGED <<hashVars, rotVars, diffVars, extVars, cacheVars, ordVars>>

\* one iteration of "for i in range(simhash_bits)", its yields consumed by compare / search
Band ==
    /\ pc = "run"
    /\ band < simhash_bits
    /\ IF \E t \in Range(queries \o tokens) : ~Resolves(t)
       THEN \* sorted(..., key=lsh) hashes every Token before the first window
            /\ pc' = "exit"
            /\ UNCHANGED <<band, d, out, raised>>
       ELSE /\ \E st \in {Visit(BandPairs(band),
                                  [d |-> d, out |-> out, pc |-> pc, raised |-> raised],
                                  band)} :
                   /\ d' = st.d
                   /\ out' = st.out
                   /\ pc' = st.pc
                   /\ raised' = st.raised
            /\ band' = band + 1
    /\ UNCHANGED <<tokens, queries, window, simhash_bits, hashsize, fingerprint, report>>
    /\ UNCHANGED <<hashVars, rotVars, diffVars, extVars, cacheVars, ordVars>>

\* range(simhash_bits) is exhausted: the generator returns
Finish ==
    /\ pc = "run"
    /\ band >= simhash_bits
    /\ pc' = "done"
    /\ UNCHANGED <<tokens, queries, window, simhash_bits, hashsize, fingerprint, band, d, out,
                   raised, report>>
    /\ UNCHANGED <<hashVars, rotVars, diffVars, extVars, cacheVars, ordVars>>

Next == Compare \/ Search \/ Band \/ Finish

Spec == Init /\ [][Next]_vars

----------------------------------------------------------------------------
(* simphon.py: __main__, compare and the sorted report *)

\* the orders sort_values can leave the records in: ascending in the difference, the
\* records of equal difference in any order (the default sort is not stable)
RECURSIVE Orders(_, _)
Orders(recs, S) ==
    IF S = {} THEN {<<>>}
    ELSE LET firsts == {k \in S : \A j \in S : recs[k].difference <= recs[j].difference}
         IN  UNION {{<<recs[k]>> \o r : r \in Orders(recs, S \ {k})} : k \in firsts}

\* DataFrame.sort_values('simhash difference (in bits)', ignore_index=True)
sort_values(recs) == Orders(recs, DOMAIN recs)

MainInit ==
    /\ tokens \in SeqsUpTo(Universe \cup Unknown, 1, MaxTokens)
    /\ window \in 1 .. MaxWindow
    /\ hashsize \in HashSizes
    /\ fingerprint \in [Matrices -> {matrix_simhash(tb, hashsize) : tb \in LshTables(hashsize)}]
    /\ simhash_bits = SIMHASH_BITS
    /\ queries = <<>>
    /\ band = 0
    /\ d = {}
    /\ out = <<>>
    /\ pc = "init"
    /\ raised = <<>>
    /\ report = <<>>
    /\ Idle

\* print(comparisons.sort_values(...).to_csv(sep='\t')): a frame without records has
\* no column to sort by
Report ==
    /\ pc = "done"
    /\ IF out = <<>>
       THEN pc' = "KeyError" /\ UNCHANGED report
       ELSE pc' = "reported" /\ report' \in sort_values(out)
    /\ UNCHANGED <<tokens, queries, window, simhash_bits, hashsize, fingerprint, band, d, out,
                   raised>>
    /\ UNCHANGED <<hashVars, rotVars, diffVars, extVars, cacheVars, ordVars>>

MainNext == Compare \/ Band \/ Finish \/ Report

SpecMain == MainInit /\ [][MainNext]_vars

----------------------------------------------------------------------------
(* One call of matrix_simhash *)

NoRun ==
    /\ tokens = <<>> /\ queries = <<>> /\ window = 2 /\ simhash_bits = SIMHASH_BITS
    /\ fingerprint = <<>> /\ band = 0 /\ d = {} /\ out = <<>> /\ pc = "idle" /\ raised = <<>>
    /\ report = <<>>

HashInit ==
    /\ NoRun
    /\ hashsize \in HashSizes
    /\ mpc = "loop" /\ mslot = 1 /\ simhash = {} /\ shifts = <<>>
    /\ RotateIdle /\ DiffIdle /\ ExtIdle /\ CacheIdle /\ OrdIdle

\* one iteration of the loops over (i, j); the hash decides what lsh(...) returns
HashStep ==
    /\ mpc = "loop"
    /\ mslot <= Len(SlotOrder)
    /\ \E r \in LshValues(hashsize) :
           simhash' = SimhashStep(simhash, r, SlotOrder[mslot][1], SlotOrder[mslot][2], hashsize)
    /\ shifts' = Append(shifts, ShiftOf(SlotOrder[mslot][1], SlotOrder[mslot][2], hashsize))
    /\ mslot' = mslot + 1
    /\ UNCHANGED mpc
    /\ UNCHANGED <<candVars, rotVars, diffVars, extVars, cacheVars, ordVars>>

\* return simhash
HashReturn ==
    /\ mpc = "loop"
    /\ mslot > Len(SlotOrder)
    /\ mpc' = "done"
    /\ UNCHANGED <<mslot, simhash, shifts>>
    /\ UNCHANGED <<candVars, rotVars, diffVars, extVars, cacheVars, ordVars>>

HashNext == HashStep \/ HashReturn

SpecHash == HashInit /\ [][HashNext]_vars

----------------------------------------------------------------------------
(* One call of rotate, and the call that undoes it *)

RotateInit ==
    /\ NoRun
    /\ hashsize = DEFAULT_HASHSIZE
    /\ HashIdle /\ DiffIdle /\ ExtIdle /\ CacheIdle /\ OrdIdle
    /\ rpc = "args"
    /\ rbits \in 1 .. MaxRotateBits
    /\ rx \in SUBSET (0 .. MaxRotateBits)
    /\ rk \in 0 .. (2 * rbits)
    /\ ry = {} /\ rz = {}

Rotate ==
    /\ rpc = "args"
    /\ ry' = rotate(rx, rbits, rk)
    /\ rpc' = "rotated"
    /\ UNCHANGED <<rx, rbits, rk, rz>>
    /\ UNCHANGED <<candVars, hashVars, diffVars, extVars, cacheVars, ordVars>>

RotateBack ==
    /\ rpc = "rotated"
    /\ rk < rbits
    /\ rz' = rotate(ry, rbits, rbits - rk)
    /\ rpc' = "back"
    /\ UNCHANGED <<rx, rbits, rk, ry>>
    /\ UNCHANGED <<candVars, hashVars, diffVars, extVars, cacheVars, ordVars>>

RotateNext == Rotate \/ RotateBack

SpecRotate == RotateInit /\ [][RotateNext]_vars

----------------------------------------------------------------------------
(* One call of simdiff, and the call with the operands exchanged *)

DiffInit ==
    /\ NoRun
    /\ hashsize = DEFAULT_HASHSIZE
    /\ HashIdle /\ RotateIdle /\ ExtIdle /\ CacheIdle /\ OrdIdle
    /\ dpc = "args"
    /\ da \in SUBSET (0 .. (MaxDiffBits - 1))
    /\ db \in SUBSET (0 .. (MaxDiffBits - 1))
    /\ dab = 0 /\ dba = 0

Simdiff ==
    /\ dpc = "args"
    /\ dab' = simdiff(da, db)
    /\ dba' = simdiff(db, da)
    /\ dpc' = "called"
    /\ UNCHANGED <<da, db>>
    /\ UNCHANGED <<candVars, hashVars, rotVars, extVars, cacheVars, ordVars>>

DiffNext == Simdiff

SpecDiff == DiffInit /\ [][DiffNext]_vars

----------------------------------------------------------------------------
(* lsh_utils.py: segment_simhash and stride_simhash, one call of either *)

\* the sequences of a sequence, one after the other
RECURSIVE Concat(_)
Concat(seqs) == IF seqs = <<>> THEN <<>> ELSE Head(seqs) \o Concat(Tail(seqs))

\* ndarray.tobytes() of a block in C order / b''.join of the rows' bytes
tobytes(rows) == Concat(rows)

\* m.shape of a matrix with at least one row
shape(m) == <<Len(m), Len(m[1])>>

\* shape < window_shape: the order of tuples
TupleLT(s, t) == s[1] < t[1] \/ (s[1] = t[1] /\ s[2] < t[2])

\* the byte strings segment_simhash hashes: one per n-gram of rows
SegmentData(m, n) ==
    LET grams == ngrams(m, n)
    IN  [k \in DOMAIN grams |-> tobytes(grams[k])]

\* sliding_window_view(m, (n, n)) refuses a window larger than m in some dimension
WindowTooLarge(m, n) == n > Len(m) \/ n > Len(m[1])

\* sliding_window_view(m, (n, n)): the n x n views by row offset, then column offset
sliding_window_view(m, n) ==
    [r \in 1 .. (Len(m) - n + 1) |->
        [c \in 1 .. (Len(m[1]) - n + 1) |->
            [k \in 1 .. n |-> SubSeq(m[r + k - 1], c, c + n - 1)]]]

\* the byte strings stride_simhash hashes: "for axis in ...: for view in axis"
StrideData(m, n) ==
    LET axes == sliding_window_view(m, n)
    IN  Concat([r \in DOMAIN axes |-> [c \in DOMAIN axes[r] |-> tobytes(axes[r][c])]])

\* lsh[j] after the loops: +1 for every hash with bit j set, -1 for every other one
RECURSIVE Counter(_, _, _)
Counter(datas, hf, j) ==
    IF datas = <<>> THEN 0
    ELSE (IF j \in hf[Head(datas)] THEN 1 ELSE -1) + Counter(Tail(datas), hf, j)

\* lsh as a sequence: Counters(...)[j + 1] is lsh[j]
Counters(datas, hf, hs) == [j \in 1 .. hs |-> Counter(datas, hf, j - 1)]

\* np.zeros(hashsize)
Zeros(hs) == [j \in 1 .. hs |-> 0]

\* the bits of the counters taken in their own order
SignBits_Unreversed(cnt) == {i \in 0 .. (Len(cnt) - 1) : cnt[i + 1] > 0}

\* sum(int(b > 0) << i for (i, b) in enumerate(reversed(lsh)))
SignBits(cnt) == {i \in 0 .. (Len(cnt) - 1) : cnt[Len(cnt) - i] > 0}

\* what a call does: the value returned or the error raised, with the byte strings
\* hashed and the counters
Returned(value, data, cnt) ==
    [err |-> "none", value |-> value, data |-> data, counters |-> cnt]

Raised(err, hs) == [err |-> err, value |-> {}, data |-> <<>>, counters |-> Zeros(hs)]

\* segment_simhash(m, n, hashsize, seed), hf being hashf at that hashsize and seed
segment_simhash(m, n, hs, hf) ==
    IF Len(m) < n THEN Returned({}, <<>>, Zeros(hs))
    ELSE LET data == SegmentData(m, n)
             cnt  == Counters(data, hf, hs)
         IN  Returned(SignBits(cnt), data, cnt)

\* stride_simhash(m, n, hashsize, seed), hf being hashf at that hashsize and seed
stride_simhash(m, n, hs, hf) ==
    IF TupleLT(shape(m), <<n, n>>) THEN Returned({}, <<>>, Zeros(hs))
    ELSE IF WindowTooLarge(m, n) THEN Raised("ValueError", hs)
    ELSE LET data == StrideData(m, n)
             cnt  == Counters(data, hf, hs)
         IN  Returned(SignBits(cnt), data, cnt)

\* the cells of the matrices the extractors are called on
Patterns == {"const", "rows", "cols", "alt"}

Cell(p, r, c) ==
    CASE p = "const" -> 0
      [] p = "rows"  -> r
      [] p = "cols"  -> c
      [] p = "alt"   -> r % 2

ExtMatrices ==
    {[r \in 1 .. rows |-> [c \in 1 .. cols |-> Cell(p, r, c)]] :
        rows \in 1 .. MaxRows, cols \in 1 .. MaxCols, p \in Patterns}

\* the values of hashf(data, bits=hs, seed)
HashValues(hs) == {{}, {hs - 1}, 0 .. (hs - 1)}

\* the byte strings a call hashes
DataOf(kind, m, n) ==
    IF kind = "segment" THEN Range(SegmentData(m, n))
    ELSE IF WindowTooLarge(m, n) THEN {}
    ELSE Range(StrideData(m, n))

ExtInit ==
    /\ NoRun
    /\ hashsize \in HashSizes
    /\ HashIdle /\ RotateIdle /\ DiffIdle /\ CacheIdle /\ OrdIdle
    /\ epc = "args"
    /\ ekind \in {"segment", "stride"}
    /\ em \in ExtMatrices
    /\ en \in 1 .. MaxN
    /\ ehashf \in [DataOf(ekind, em, en) -> HashValues(hashsize)]
    /\ edata = <<>> /\ elsh = <<>> /\ eres = {}

Call(r) ==
    /\ epc' = IF r.err = "none" THEN "returned" ELSE "raised"
    /\ eres' = r.value
    /\ edata' = r.data
    /\ elsh' = r.counters
    /\ UNCHANGED <<ekind, em, en, ehashf, hashsize>>
    /\ UNCHANGED <<tokens, queries, window, simhash_bits, fingerprint, band, d, out, pc, raised,
                   report>>
    /\ UNCHANGED <<hashVars, rotVars, diffVars, cacheVars, ordVars>>

SegmentSimhash ==
    /\ epc = "args"
    /\ ekind = "segment"
    /\ Call(segment_simhash(em, en, hashsize, ehashf))

StrideSimhash ==
    /\ epc = "args"
    /\ ekind = "stride"
    /\ Call(stride_simhash(em, en, hashsize, ehashf))

ExtNext == SegmentSimhash \/ StrideSimhash

SpecExt == ExtInit /\ [][ExtNext]_vars

----------------------------------------------------------------------------
(* simphon.py: Token.simhash() of one Token while the class attributes change *)

\* the values --seed takes
Seeds == {DEFAULT_SEED, DEFAULT_SEED + 1}

\* (hashsize, seed)
Configurations == HashSizes \X Seeds

\* what matrix_simhash can return for the Token's matrix under each configuration
SimhashFunctions ==
    {f \in [Configurations ->
               UNION {{matrix_simhash(tb, hs) : tb \in LshTables(hs)} : hs \in HashSizes}] :
        \A c \in Configurations :
            f[c] \in {matrix_simhash(tb, c[1]) : tb \in LshTables(c[1])}}

CacheInit ==
    /\ NoRun
    /\ hashsize = DEFAULT_HASHSIZE
    /\ HashIdle /\ RotateIdle /\ DiffIdle /\ ExtIdle /\ OrdIdle
    /\ cpc = "start"
    /\ seed = DEFAULT_SEED
    /\ salt = DEFAULT_SEED
    /\ simhashOf \in SimhashFunctions
    /\ cache = <<>>
    /\ returned = {}

NotCache ==
    /\ UNCHANGED <<tokens, queries, window, simhash_bits, fingerprint, band, d, out, pc, raised,
                   report>>
    /\ UNCHANGED <<hashVars, rotVars, diffVars, extVars, ordVars>>

\* Token.hashsize = args.bit_size
SetBitSize ==
    /\ cpc \in {"start", "configured", "called"}
    /\ \E b \in HashSizes : hashsize' = b
    /\ cpc' = "configured"
    /\ UNCHANGED <<seed, salt, simhashOf, cache, returned>>
    /\ NotCache

\* Token.salt = args.seed
SetSeed ==
    /\ cpc \in {"start", "configured", "called"}
    /\ \E s \in Seeds : salt' = s
    /\ cpc' = "configured"
    /\ UNCHANGED <<hashsize, seed, simhashOf, cache, returned>>
    /\ NotCache

\* the body of Token.simhash: matrix_simhash(matrix, hashsize=self.hashsize, seed=self.seed)
Compute == simhashOf[<<hashsize, seed>>]

\* Token.simhash() behind lru_cache: the key is the Token alone
TokenSimhashCall ==
    /\ cpc \in {"start", "configured", "called"}
    /\ returned' = IF cache # <<>> THEN cache[1] ELSE Compute
    /\ cache' = <<returned'>>
    /\ cpc' = "called"
    /\ UNCHANGED <<hashsize, seed, salt, simhashOf>>
    /\ NotCache

CacheNext == SetBitSize \/ SetSeed \/ TokenSimhashCall

SpecCache == CacheInit /\ [][CacheNext]_vars

----------------------------------------------------------------------------
(* simphon.py: two Tokens compared, and the keys candidates makes of the pair *)

\* the Tokens compared: the same sounds written as one symbol or as two among them
OrdTokens ==
    {Token(l, g, ph) : l \in 1 .. 2, g \in 1 .. 2,
                       ph \in {<<1, 2>>, <<SpacedSymbol>>, <<1, 2, 1>>, <<1, 3, 1>>}}

OrdInit ==
    /\ NoRun
    /\ hashsize = DEFAULT_HASHSIZE
    /\ HashIdle /\ RotateIdle /\ DiffIdle /\ ExtIdle /\ CacheIdle
    /\ opc = "args"
    /\ oa \in OrdTokens
    /\ ob \in OrdTokens
    /\ olt = FALSE /\ oeq = FALSE /\ ogt = FALSE
    /\ okeyab = <<>> /\ okeyba = <<>> /\ onew = FALSE

\* a < b, a == b, b < a; then candidates meets (a, b), yields and adds its key to d,
\* and meets (b, a)
CompareTokens ==
    /\ opc = "args"
    /\ olt' = TokenLT(oa, ob)
    /\ oeq' = TokenEQ(oa, ob)
    /\ ogt' = TokenLT(ob, oa)
    /\ okeyab' = SortedPair(oa, ob)
    /\ okeyba' = SortedPair(ob, oa)
    /\ onew' = IsNew(SortedPair(ob, oa), {SortedPair(oa, ob)})
    /\ opc' = "compared"
    /\ UNCHANGED <<oa, ob>>
    /\ UNCHANGED <<candVars, hashVars, rotVars, diffVars, extVars, cacheVars>>

OrdNext == CompareTokens

SpecOrd == OrdInit /\ [][OrdNext]_vars

----------------------------------------------------------------------------
(* Claims about a run of compare / search *)

\* the list candidates sorts: chain(queries, tokens)
AllTokens == queries \o tokens

\* the unordered pairs the records so far hold
YieldedPairs == {{out[k].a, out[k].b} : k \in DOMAIN out}

\* all two-element combinations of the corpus
CorpusPairs == {{tokens[j], tokens[k]} : j, k \in DOMAIN tokens} \ {{t} : t \in Range(tokens)}

PairwiseDistinct(seq) == \A j, k \in DOMAIN seq : j # k => seq[j] # seq[k]

\* the same language and the same phoneme sequence
SameSound(a, b) == a.language = b.language /\ a.phonemes = b.phonemes

\* popcount(x ^ y)
Hamming(x, y) == Cardinality(Xor(x, y))

\* C1: a finished run with no queries over N >= 2 pairwise distinct Tokens and a
\* window of at least N has yielded exactly the N(N-1)/2 combinations of the corpus.
C1_Completeness ==
    (/\ pc = "done"
     /\ Len(queries) = 0
     /\ Len(tokens) >= 2
     /\ PairwiseDistinct(tokens)
     /\ window >= Len(tokens))
    => YieldedPairs = CorpusPairs

\* C2: with a non-empty query set, every yielded pair has an element in the query set.
C2_QueryPruning ==
    Len(queries) > 0 =>
        \A k \in DOMAIN out : out[k].a \in Range(queries) \/ out[k].b \in Range(queries)

\* a finished query run that yielded something, in which a window holding a query
\* also held two corpus Tokens outside the query set
C2_Witness ==
    /\ pc = "done"
    /\ Len(queries) > 0
    /\ Len(out) > 0
    /\ window = Len(AllTokens)
    /\ \E j, k \in DOMAIN tokens :
           /\ j # k
           /\ tokens[j] \notin Range(queries)
           /\ tokens[k] \notin Range(queries)

\* C3: no unordered pair is yielded twice in one run.
C3_AtMostOnce ==
    \A j, k \in DOMAIN out : j # k => {out[j].a, out[j].b} # {out[k].a, out[k].b}

\* a finished run in which a yielded pair was reached in two different bands
C3_Witness ==
    /\ pc = "done"
    /\ \E k \in DOMAIN out :
           \E i1, i2 \in 0 .. (simhash_bits - 1) :
               /\ i1 # i2
               /\ \E p \in Range(BandPairs(i1)) : {p[1], p[2]} = {out[k].a, out[k].b}
               /\ \E p \in Range(BandPairs(i2)) : {p[1], p[2]} = {out[k].a, out[k].b}

\* C4: every yielded difference is the Hamming distance of the pair's unrotated
\* fingerprints, whichever band yielded it.
C4_UnrotatedDistance ==
    \A k \in DOMAIN out :
        out[k].difference = Hamming(TokenSimhash(out[k].a), TokenSimhash(out[k].b))

\* C5, as stated: the distance of two Tokens of the same language and phonemes is
\* computed without error, whatever their fingerprint, and their record has
\* difference 0 and score 1.0.
C5_SameSoundAlwaysZero ==
    /\ pc = "error" => ~SameSound(raised[1], raised[2])
    /\ \A k \in DOMAIN out :
           SameSound(out[k].a, out[k].b) =>
               out[k].difference = 0 /\ out[k].score[1] = out[k].score[2]

\* C5, amended: simdiff of the fingerprints of two such Tokens is 0 when the
\* fingerprint is not 0 and raises ValueError when it is 0; a record pairing them
\* has difference 0 and score 1.0.
C5_SameSoundZeroUnlessZeroWidth ==
    /\ \A t, u \in Range(AllTokens) :
           SameSound(t, u) =>
               simdiff(TokenSimhash(t), TokenSimhash(u)) =
                   (IF TokenSimhash(t) = {} THEN ValueError ELSE 0)
    /\ \A k \in DOMAIN out :
           SameSound(out[k].a, out[k].b) =>
               out[k].difference = 0 /\ out[k].score[1] = out[k].score[2]

\* a record pairing two different Tokens of the same language and phonemes
C5_Witness ==
    \E k \in DOMAIN out :
        /\ out[k].a # out[k].b
        /\ SameSound(out[k].a, out[k].b)
        /\ TokenSimhash(out[k].a) # {}

\* C7: every record has 0 <= difference <= simhash_bits, so its score is in [0, 1].
C7_DifferenceInRange ==
    \A k \in DOMAIN out :
        /\ 0 <= out[k].difference /\ out[k].difference <= simhash_bits
        /\ 0 <= out[k].score[1] /\ out[k].score[1] <= out[k].score[2]

----------------------------------------------------------------------------
(* Claims about matrix_simhash *)

\* C6: the fingerprint matrix_simhash returns has at most
\* hashsize * len(features) * len(n_gram_sizes) significant bits.
C6_FingerprintWidth ==
    mpc = "done" => BitLength(simhash) <= hashsize * Len(features) * Len(n_gram_sizes)

\* C8: the shifts applied to the (i, j) combinations are pairwise at least hashsize
\* apart, so no two results occupy the same bit positions.
C8_DisjointShifts ==
    \A j, k \in DOMAIN shifts :
        j # k => (shifts[j] - shifts[k] >= hashsize \/ shifts[k] - shifts[j] >= hashsize)

----------------------------------------------------------------------------
(* Claims about rotate *)

\* C9: rotating by k and then by width - k gives back x, for 0 <= k < width and
\* every x.
C9_Invertible == rpc = "back" => rz = rx

\* C10: for 0 <= value < 2^width, bit p of rotate(value, width, k) is bit
\* (p + k) mod width of value, the result stays within width bits, and it is
\* value itself when k is a multiple of width.
C10_RightRotation ==
    (rpc \in {"rotated", "back"} /\ rx \subseteq Mask(rbits)) =>
        /\ ry \subseteq Mask(rbits)
        /\ \A p \in Mask(rbits) : p \in ry <=> ((p + rk) % rbits) \in rx
        /\ rk % rbits = 0 => ry = rx

\* a rotation that moves the lowest bit of a value within the field round to the top
C10_Witness ==
    /\ rpc = "rotated"
    /\ rx \subseteq Mask(rbits)
    /\ 0 \in rx
    /\ rk % rbits # 0
    /\ (rbits - (rk % rbits)) \in ry
    /\ ry # rx

----------------------------------------------------------------------------
(* Claims about the configuration and the pairs of a run *)

\* C14: a window below 2 or a bit width below 1 is rejected before any fingerprint
\* is hashed: no band is ever sorted and the run never completes normally.
C14_InvalidConfigurationRejected ==
    (window < 2 \/ simhash_bits < 1) => (band = 0 /\ pc # "done")

\* C16: every yielded pair consists of two distinct Tokens, also when a query occurs
\* in the token list and when the token list holds two equal Tokens.
C16_PairsDistinct == \A k \in DOMAIN out : out[k].a # out[k].b

----------------------------------------------------------------------------
(* Claims about simdiff *)

\* C11, as stated: simdiff(a, b) = simdiff(b, a), and simdiff(a, b) is 0 exactly
\* when a = b, a = b = 0 included.
C11_SymmetricZeroIffEqual ==
    dpc = "called" =>
        /\ dab = dba
        /\ dab = 0 <=> da = db

\* C11, amended: simdiff(a, b) and simdiff(b, a) have the same outcome; when a and b
\* are not both 0, simdiff(a, b) is 0 exactly when a = b; simdiff(0, 0) raises
\* ValueError.
C11_SymmetricZeroIffEqualNonZero ==
    dpc = "called" =>
        /\ dab = dba
        /\ (da # {} \/ db # {}) => (dab = 0 <=> da = db)
        /\ (da = {} /\ db = {}) => dab = ValueError

\* two different operands of different bit lengths, and their distance
C11_Witness ==
    /\ dpc = "called"
    /\ da # db
    /\ BitLength(da) # BitLength(db)
    /\ da # {} /\ db # {}
    /\ dab > 0

\* C12: simdiff raises exactly when a = b = 0; otherwise it returns the number of
\* set bits of a ^ b.
C12_RaisesIffBothZero ==
    dpc = "called" =>
        /\ dab = ValueError <=> (da = {} /\ db = {})
        /\ (da # {} \/ db # {}) => dab = Hamming(da, db)

\* a call with both operands 0, which has raised
C12_WitnessRaised == dpc = "called" /\ da = {} /\ db = {} /\ dab = ValueError

----------------------------------------------------------------------------
(* Claims about segment_simhash and stride_simhash *)

\* the matrix is smaller than the window in a dimension the extractor uses
Smaller ==
    IF ekind = "segment" THEN Len(em) < en
    ELSE Len(em) < en \/ Len(em[1]) < en

Called == epc \in {"returned", "raised"}

\* C13: whenever the matrix is smaller than the window in a dimension the extractor
\* uses, the call returns 0 and raises no error.
C13_SmallMatrixGivesZero ==
    (Called /\ Smaller) => (epc = "returned" /\ eres = {})

\* the windows whose hash has bit j set, minus those whose hash has it clear
Votes(j) ==
    Cardinality({k \in DOMAIN edata : j \in ehashf[edata[k]]})
        - Cardinality({k \in DOMAIN edata : j \notin ehashf[edata[k]]})

\* C18, as stated: bit j of the value returned is 1 iff the windows whose hash has
\* bit j set outnumber those whose hash has it clear; a tie gives 0.
C18_MajoritySameBit ==
    epc = "returned" =>
        \A j \in 0 .. (hashsize - 1) : j \in eres <=> Votes(j) > 0

\* C18, amended: bit j of the value returned is 1 iff the windows whose hash has bit
\* hashsize - 1 - j set outnumber those whose hash has it clear; a tie gives 0.
C18_MajorityMirroredBit ==
    epc = "returned" =>
        \A j \in 0 .. (hashsize - 1) : j \in eres <=> Votes(hashsize - 1 - j) > 0

\* two windows that agree on the top bit of their hashes and are tied on bit 0
C18_Witness ==
    /\ epc = "returned"
    /\ hashsize > 1
    /\ Len(edata) > 1
    /\ Votes(hashsize - 1) > 0
    /\ Votes(0) = 0
    /\ eres = {0}

\* the axis (row offset, from 0) of the k-th window of stride_simhash
AxisOf(k) == (k - 1) \div (Len(em[1]) - en + 1)

\* C19: in stride_simhash two windows at different axis offsets are hashed from
\* different byte strings, identical contents included.
C19_AxisIndexDistinguishes ==
    (epc = "returned" /\ ekind = "stride") =>
        \A j, k \in DOMAIN edata : AxisOf(j) # AxisOf(k) => edata[j] # edata[k]

----------------------------------------------------------------------------
(* Claims about a run of __main__ *)

\* C15: when a Token of the input has a phoneme without a feature row, the run
\* aborts before any record is yielded or reported: no band is completed, and
\* the run ends by sys.exit and in no other way.
C15_UnknownPhonemeAborts ==
    (\E t \in Range(AllTokens) : t \in Unknown) =>
        /\ out = <<>> /\ report = <<>> /\ band = 0
        /\ pc \in {"init", "run", "exit"}

\* a run that has aborted although the Token sorted first has all its feature rows
C15_Witness ==
    /\ pc = "exit"
    /\ Len(tokens) > 1
    /\ tokens[1] \in Universe
    /\ window <= Len(tokens)

\* the natural order of two records: by a, then by b
RecordLE(r, s) ==
    \/ TokenLT(r.a, s.a)
    \/ r.a = s.a /\ (TokenLT(r.b, s.b) \/ r.b = s.b)

\* C17: the report is ascending in the difference, and records of equal difference
\* are in the natural order of their Tokens (a, then b).
C17_ReportOrder ==
    pc = "reported" =>
        \A j, k \in DOMAIN report :
            j < k => /\ report[j].difference <= report[k].difference
                     /\ report[j].difference = report[k].difference
                            => RecordLE(report[j], report[k])

----------------------------------------------------------------------------
(* Claims about Token.simhash and the configuration *)

\* C20: a call of Token.simhash() returns the fingerprint for the configuration
\* (Token.hashsize, Token.seed) in force at the call, also after the configuration
\* has changed since an earlier call.
C20_CacheFollowsConfiguration ==
    cpc = "called" => returned = simhashOf[<<hashsize, seed>>]

----------------------------------------------------------------------------
(* Claims about Token equality and ordering *)

\* C21: for all Tokens a, b exactly one of a < b, a == b, b < a holds; sorting the
\* pair gives the same key whichever order the two are met in, and the dedup set
\* takes the second order for a pair already seen.
C21_Trichotomy ==
    opc = "compared" =>
        /\ \/ (olt /\ ~oeq /\ ~ogt)
           \/ (~olt /\ oeq /\ ~ogt)
           \/ (~olt /\ ~oeq /\ ogt)
        /\ okeyab = okeyba
        /\ ~onew

====
